---- MODULE Spec2Model ----
(***************************************************************************)
(* Model of site/scripts/generate_tarot_background.py: main() loads the    *)
(* tarot cards of a directory, resizes them to a common height, tiles them *)
(* in columns on a transparent canvas with random vertical jitter, and     *)
(* saves the canvas.                                                       *)
(*                                                                         *)
(* Images are modelled by their sizes, the canvas by its size and the list *)
(* of alpha_composite calls made on it.  The module-level random generator *)
(* is modelled by the log of the calls made to it: a call returns any      *)
(* value of its range, except that a generator seeded with the same seed   *)
(* returns the same values to the same sequence of calls.                  *)
(***************************************************************************)
EXTENDS Integers, Sequences, FiniteSets

VARIABLES
    pc,       \* position in main(): "seed", "load", "composite", "column",
              \* "slot", "mkdir", "save", "done", "error"
    args,     \* the parsed command line (argparse.Namespace)
    files,    \* sizes of the PNG files of tarot_dir, in sorted order
    cards,    \* list of resized cards (sizes), result of load_cards
    canvas,   \* the canvas of composite_background: size and composites made
    columns,  \* list of column x-offsets
    col,      \* 1-based index of the column being laid out
    y,        \* running y of the current column
    draws,    \* log of the calls made to the random module in this run
    rng,      \* how the random generator was seeded: <<>> or <<seed>>
    err,      \* the exception that ended the run, "" when none
    outdir,   \* TRUE once output_path.parent.mkdir has run
    output,   \* the saved file: "none" or the canvas written
    run,      \* 1 for the first run, 2 for a second run with the same inputs
    prev      \* what the first run left: its draws, canvas, pc and err

vars == <<pc, args, files, cards, canvas, columns, col, y, draws, rng, err,
          outdir, output, run, prev>>

\* ------------------------------------------------------------------ bounds

\* Runs of main: canvas heights 0..MaxHeight, row gaps -MaxRowGap..MaxRowGap.
MaxHeight == 2
MaxRowGap == 1

\* ------------------------------------------------ IEEE 754 double arithmetic
\* Python's float is the binary64 format: 53 significant bits, results
\* rounded to nearest, ties to even.  A positive float is modelled as a
\* record [m |-> <<d0, d1, d2, d3, d4>>, e |-> exponent] of value
\*     (d0 * 2^52 + d1 * 2^39 + d2 * 2^26 + d3 * 2^13 + d4) * 2^e
\* with d0 = 1 and four limbs d1..d4 of LimbBits bits each.  The ints that
\* enter (sides of images in pixels) are below 2^17, so no step leaves the
\* 32-bit integers of the checker.

MantissaBits == 53
LimbBits == 13

RECURSIVE Pow2(_)
Pow2(n) ==
    IF n = 0 THEN 1
    ELSE LET h == Pow2(n \div 2)
         IN  IF n % 2 = 0 THEN h * h ELSE 2 * h * h

LimbBase == Pow2(LimbBits)

\* the number of bits of n, 0 <= n < 2^30
BitLen(n) == CHOOSE k \in 0..30 : Pow2(k) > n /\ (k = 0 \/ Pow2(k - 1) <= n)

\* m + 1 on the limbs (the leading limb takes the last carry)
AddOne(m) ==
    IF m[5] + 1 < LimbBase THEN <<m[1], m[2], m[3], m[4], m[5] + 1>>
    ELSE IF m[4] + 1 < LimbBase THEN <<m[1], m[2], m[3], m[4] + 1, 0>>
    ELSE IF m[3] + 1 < LimbBase THEN <<m[1], m[2], m[3] + 1, 0, 0>>
    ELSE IF m[2] + 1 < LimbBase THEN <<m[1], m[2] + 1, 0, 0, 0>>
    ELSE <<m[1] + 1, 0, 0, 0, 0>>

\* The float of mantissa m (MantissaBits bits) and exponent e, rounded up by
\* one unit in the last place when up; an all-ones mantissa rounds to the
\* next power of two.
Rounded(m, e, up) ==
    IF ~up THEN [m |-> m, e |-> e]
    ELSE IF AddOne(m)[1] = 2 THEN [m |-> <<1, 0, 0, 0, 0>>, e |-> e + 1]
    ELSE [m |-> AddOne(m), e |-> e]

\* m shifted right by s bits, 0 <= s < LimbBits
ShiftRight(m, s) ==
    LET lo == Pow2(s)
        hi == Pow2(LimbBits - s)
    IN  << m[1] \div lo,
           (m[1] % lo) * hi + m[2] \div lo,
           (m[2] % lo) * hi + m[3] \div lo,
           (m[3] % lo) * hi + m[4] \div lo,
           (m[4] % lo) * hi + m[5] \div lo >>

\* m shifted right by one limb
ShiftLimb(m) == <<m[1] \div LimbBase, m[1] % LimbBase, m[2], m[3], m[4]>>

\* The largest k with den * 2^k <= num (num >= den >= 1).
RECURSIVE ShiftsUp(_, _)
ShiftsUp(num, den) == IF 2 * den <= num THEN 1 + ShiftsUp(num, 2 * den) ELSE 0

\* The least k with num * 2^k >= den (1 <= num).
RECURSIVE ShiftsDown(_, _)
ShiftsDown(num, den) == IF num >= den THEN 0 ELSE 1 + ShiftsDown(2 * num, den)

\* a / b on two positive ints: true division, correctly rounded.  The
\* operands are scaled to den <= num < 2 * den; the long division gives the
\* leading 1 and four limbs, and the last remainder decides the rounding.
FloatDiv(a, b) ==
    LET up == IF a >= b THEN ShiftsUp(a, b) ELSE 0
        down == IF a >= b THEN 0 ELSE ShiftsDown(a, b)
        num == a * Pow2(down)
        den == b * Pow2(up)
        n1 == (num - den) * LimbBase
        n2 == (n1 % den) * LimbBase
        n3 == (n2 % den) * LimbBase
        n4 == (n3 % den) * LimbBase
        r == n4 % den
    IN  Rounded(<<1, n1 \div den, n2 \div den, n3 \div den, n4 \div den>>,
                (up - down) - (MantissaBits - 1),
                2 * r > den \/ (2 * r = den /\ (n4 \div den) % 2 = 1))

\* w * f for an int w >= 1 and a float f: the exact product, of which the
\* s bits beyond MantissaBits are rounded away.
FloatMulInt(w, f) ==
    LET c4 == f.m[5] * w
        c3 == f.m[4] * w + c4 \div LimbBase
        c2 == f.m[3] * w + c3 \div LimbBase
        c1 == f.m[2] * w + c2 \div LimbBase
        top == f.m[1] * w + c1 \div LimbBase
        p == <<top, c1 % LimbBase, c2 % LimbBase, c3 % LimbBase, c4 % LimbBase>>
        s == BitLen(top) - 1
        whole == s >= LimbBits
        p1 == IF whole THEN ShiftLimb(p) ELSE p
        s1 == IF whole THEN s - LimbBits ELSE s
        kept == ShiftRight(p1, s1)
        lost == IF whole THEN (p1[5] % Pow2(s1)) * LimbBase + p[5]
                ELSE p1[5] % Pow2(s1)
        half == Pow2(s - 1)
    IN  IF s = 0 THEN [m |-> p, e |-> f.e]
        ELSE Rounded(kept, f.e + s,
                     lost > half \/ (lost = half /\ kept[5] % 2 = 1))

\* int(f) for a float f with 1 <= -f.e and a value below 2^31: truncation.
IntOfFloat(f) ==
    LET n == -f.e
        k == n \div LimbBits
        s == n % LimbBits
        term(i) == IF i <= 4 - k
                   THEN f.m[i] * Pow2(LimbBits * (5 - k - i) - s) ELSE 0
    IN  IF k >= 5 THEN 0
        ELSE term(1) + term(2) + term(3) + term(4) + f.m[5 - k] \div Pow2(s)

\* --------------------------------------------------------------- load_cards

\* A faulty new_size, the scale turned upside down: C5 must tell it apart.
new_size_inverted(img, target_height) ==
    [w |-> IntOfFloat(FloatMulInt(img.w, FloatDiv(img.h, target_height))),
     h |-> target_height]

\* new_size: the width scaled by target_height / img.height, computed in
\* floats and truncated by int(), and the target height.
new_size(img, target_height) ==
    [w |-> IntOfFloat(FloatMulInt(img.w, FloatDiv(target_height, img.h))),
     h |-> target_height]

\* A faulty no_cards, the check left out: C2 must tell it apart.
no_cards_unchecked(card_paths) == FALSE

\* if not card_paths
no_cards(card_paths) == card_paths = <<>>

\* Image.resize rejects a size with a side below 1 (ValueError).
resize_ok(size) == size.w >= 1 /\ size.h >= 1
ResizeError == "ValueError: height and width must be > 0"

\* ----------------------------------------------------- composite_background

Max(a, b) == IF a >= b THEN a ELSE b
Min(a, b) == IF a <= b THEN a ELSE b

\* math.ceil(n / d) for ints n and d # 0.  The quotient of two ints of pixel
\* size is far from the 2^53 where the float division could round it onto
\* an integer, so the ceiling is that of the exact quotient.
ceil_div(n, d) ==
    IF d > 0 THEN -((-n) \div d) ELSE -(n \div (-d))

column_step(card_w, column_gap) == card_w + column_gap

\* Two faulty column_count: the floor for the ceiling (C6 must tell it
\* apart) and the gap left out of the width to cover (C10 must).
floor_div(n, d) ==
    IF d > 0 THEN n \div d ELSE (-n) \div (-d)

column_count_floor(width, column_gap, card_w) ==
    Max(1, floor_div(width + column_gap, column_step(card_w, column_gap)))

column_count_nogap(width, column_gap, card_w) ==
    Max(1, ceil_div(width, column_step(card_w, column_gap)))

column_count(width, column_gap, card_w) ==
    Max(1, ceil_div(width + column_gap, column_step(card_w, column_gap)))

\* A faulty column_x, with no clamp on the right: C1 must tell it apart.
column_x_unclamped(i, width, column_gap, card_w) ==
    LET x == IF i = 0 THEN 0 ELSE i * column_step(card_w, column_gap)
    IN  Max(x, 0)

\* the x-offset appended for the 0-based column index i
column_x(i, width, column_gap, card_w) ==
    LET x == IF i = 0 THEN 0 ELSE i * column_step(card_w, column_gap)
    IN  Min(Max(x, 0), Max(width - card_w, 0))

column_offsets(width, column_gap, card_w) ==
    [i \in 1..column_count(width, column_gap, card_w) |->
        column_x(i - 1, width, column_gap, card_w)]

\* A faulty on_canvas, a card at the very top skipped too: C8 must tell it
\* apart.
on_canvas_strict(dest_y) == dest_y > 0

\* if dest_y >= 0: the card is composited
on_canvas(dest_y) == dest_y >= 0

\* Two faulty jitter_hi: the range one too wide (C4 must tell it apart) and
\* the size of the gap taken for a negative gap (C7 must).
jitter_hi_wide(row_gap) == row_gap + 1

jitter_hi_abs(row_gap) == IF row_gap < 0 THEN -row_gap ELSE row_gap

\* the range of random.randint(-row_gap, row_gap)
jitter_lo(row_gap) == -row_gap
jitter_hi(row_gap) == row_gap

\* A faulty next_y, the card height left out of the step: C9 must tell it
\* apart.
next_y_nocard(y0, card_h, row_gap, jitter) == y0 + row_gap + jitter

\* y after a slot
next_y(y0, card_h, row_gap, jitter) == y0 + card_h + row_gap + jitter

\* ------------------------------------------------------------ random module

\* A faulty seed_state, the seed not applied: C3 must tell it apart.
seed_state_ignored(state, seed) == state

\* main seeds the generator only when --seed is given; the generator state
\* is <<>> when seeded by the system (unknown), <<s>> when seeded with s.
seed_state(state, seed) == IF seed # <<>> THEN seed ELSE state

RandintError == "ValueError: empty range for randrange()"

\* A call is logged with its kind, its column, its range, whether it
\* returned, and the value returned.
Call(kind, c, lo, hi, ok, val) ==
    [kind |-> kind, col |-> c, lo |-> lo, hi |-> hi, ok |-> ok, val |-> val]

\* The values random.randint(lo, hi) may return as the call after the calls
\* of log: none when the range is empty (randint raises ValueError); the
\* value the first run got when this run has the same seed and has made the
\* same calls so far; any value of the range otherwise.
randint(state, log, kind, lo, hi) ==
    LET n == Len(log) + 1
    IN  IF lo > hi THEN {}
        ELSE IF /\ run = 2
                /\ state # <<>>
                /\ state = prev.rng
                /\ n <= Len(prev.draws)
                /\ SubSeq(prev.draws, 1, n - 1) = log
                /\ prev.draws[n].kind = kind
                /\ prev.draws[n].lo = lo
                /\ prev.draws[n].hi = hi
                /\ prev.draws[n].ok
             THEN {prev.draws[n].val}
        ELSE lo..hi

\* ------------------------------------------------------------------- state

BlankCanvas == [made |-> FALSE, w |-> 0, h |-> 0, ops |-> <<>>]
NoOutput == [written |-> FALSE, ops |-> <<>>]
NoPrev == [rng |-> <<>>, draws |-> <<>>, canvas |-> BlankCanvas,
           pc |-> "", err |-> ""]

Size(w, h) == [w |-> w, h |-> h]

\* The directories tried: empty, one square card, two portrait/square cards.
Dirs == { <<>>, <<Size(1, 1)>>, <<Size(1, 2), Size(2, 2)>> }

Seeds == { <<>>, <<7>> }

\* The canvas widths (one or two columns of the cards above) and the column
\* gaps tried in runs of main.
Widths == {1, 2}
ColumnGaps == {-1, 0, 1}

\* The target card heights tried in runs of main.
CardHeights == {1, 2}

Args(width, height, card_height, column_gap, row_gap, seed) ==
    [width |-> width, height |-> height, card_height |-> card_height,
     column_gap |-> column_gap, row_gap |-> row_gap, seed |-> seed]

\* The locals of a run that has not started.
Fresh ==
    /\ cards = <<>>
    /\ canvas = BlankCanvas
    /\ columns = <<>>
    /\ col = 0
    /\ y = 0
    /\ draws = <<>>
    /\ rng = <<>>
    /\ err = ""
    /\ outdir = FALSE
    /\ output = NoOutput

Init ==
    /\ pc = "seed"
    /\ args \in { Args(w, h, t, cg, rg, sd) :
                    w \in Widths, h \in 0..MaxHeight,
                    t \in CardHeights,
                    cg \in ColumnGaps, rg \in (-MaxRowGap)..MaxRowGap,
                    sd \in Seeds }
    /\ files \in Dirs
    /\ Fresh
    /\ run = 1
    /\ prev = NoPrev

\* ----------------------------------------------------------------- actions

\* main: if args.seed is not None: random.seed(args.seed)
seed_rng ==
    /\ pc = "seed"
    /\ rng' = seed_state(rng, args.seed)
    /\ pc' = "load"
    /\ UNCHANGED <<args, files, cards, canvas, columns, col, y, draws, err,
                   outdir, output, run, prev>>

\* cards = load_cards(tarot_dir, args.card_height)
load_cards ==
    /\ pc = "load"
    /\ LET sizes == [i \in 1..Len(files) |-> new_size(files[i], args.card_height)]
       IN  IF no_cards(files)
           THEN /\ pc' = "error"
                /\ err' = "FileNotFoundError"
                /\ cards' = cards
           ELSE IF \E i \in 1..Len(files) : ~resize_ok(sizes[i])
           THEN /\ pc' = "error"
                /\ err' = ResizeError
                /\ cards' = cards
           ELSE /\ pc' = "composite"
                /\ err' = err
                /\ cards' = sizes
    /\ UNCHANGED <<args, files, canvas, columns, col, y, draws, rng,
                   outdir, output, run, prev>>

\* composite_background up to the layout loop: the canvas and the columns
composite_background ==
    /\ pc = "composite"
    /\ canvas' = [made |-> TRUE, w |-> args.width, h |-> args.height,
                  ops |-> <<>>]
    /\ IF column_step(cards[1].w, args.column_gap) = 0
       THEN /\ pc' = "error"
            /\ err' = "ZeroDivisionError"
            /\ UNCHANGED <<columns, col>>
       ELSE /\ columns' = column_offsets(args.width, args.column_gap, cards[1].w)
            /\ col' = 1
            /\ pc' = "column"
            /\ err' = err
    /\ UNCHANGED <<args, files, cards, y, draws, rng, outdir, output, run, prev>>

\* for col, x in enumerate(columns): y = -random.randint(0, card_h)
next_column ==
    /\ pc = "column"
    /\ col <= Len(columns)
    /\ \E d \in randint(rng, draws, "y", 0, cards[1].h) :
          /\ y' = -d
          /\ draws' = Append(draws, Call("y", col, 0, cards[1].h, TRUE, d))
    /\ pc' = "slot"
    /\ UNCHANGED <<args, files, cards, canvas, columns, col, rng, err,
                   outdir, output, run, prev>>

\* one turn of the while loop: choose a card, composite it when its top is
\* on the canvas, draw the jitter, advance y
place_card ==
    /\ pc = "slot"
    /\ y < args.height
    /\ \E c \in randint(rng, draws, "choice", 1, Len(cards)) :
          LET chosen == Append(draws, Call("choice", col, 1, Len(cards), TRUE, c))
              ops == IF on_canvas(y)
                     THEN Append(canvas.ops,
                                 [col |-> col, card |-> c, x |-> columns[col], y |-> y])
                     ELSE canvas.ops
              lo == jitter_lo(args.row_gap)
              hi == jitter_hi(args.row_gap)
              jitters == randint(rng, chosen, "jitter", lo, hi)
          IN  /\ canvas' = [canvas EXCEPT !.ops = ops]
              /\ IF jitters = {}
                 THEN /\ draws' = Append(chosen, Call("jitter", col, lo, hi, FALSE, 0))
                      /\ pc' = "error"
                      /\ err' = RandintError
                      /\ y' = y
                 ELSE \E j \in jitters :
                      /\ draws' = Append(chosen, Call("jitter", col, lo, hi, TRUE, j))
                      /\ y' = next_y(y, cards[1].h, args.row_gap, j)
                      /\ pc' = pc
                      /\ err' = err
    /\ UNCHANGED <<args, files, cards, columns, col, rng, outdir, output, run, prev>>

\* the while loop ends: on to the next column
end_column ==
    /\ pc = "slot"
    /\ y >= args.height
    /\ col' = col + 1
    /\ pc' = "column"
    /\ UNCHANGED <<args, files, cards, canvas, columns, y, draws, rng, err,
                   outdir, output, run, prev>>

\* return canvas
return_canvas ==
    /\ pc = "column"
    /\ col > Len(columns)
    /\ pc' = "mkdir"
    /\ UNCHANGED <<args, files, cards, canvas, columns, col, y, draws, rng, err,
                   outdir, output, run, prev>>

\* output_path.parent.mkdir(parents=True, exist_ok=True)
mkdir ==
    /\ pc = "mkdir"
    /\ outdir' = TRUE
    /\ pc' = "save"
    /\ UNCHANGED <<args, files, cards, canvas, columns, col, y, draws, rng, err,
                   output, run, prev>>

\* background.save(output_path)
save ==
    /\ pc = "save"
    /\ output' = [written |-> TRUE, ops |-> canvas.ops]
    /\ pc' = "done"
    /\ UNCHANGED <<args, files, cards, canvas, columns, col, y, draws, rng, err,
                   outdir, run, prev>>

\* A second, independent run of the script with the same command line (one
\* that fixes the seed) on the same directory.
rerun ==
    /\ run = 1
    /\ args.seed # <<>>
    /\ pc \in {"done", "error"}
    /\ prev' = [rng |-> rng, draws |-> draws, canvas |-> canvas,
                pc |-> pc, err |-> err]
    /\ run' = 2
    /\ pc' = "seed"
    /\ cards' = <<>>
    /\ canvas' = BlankCanvas
    /\ columns' = <<>>
    /\ col' = 0
    /\ y' = 0
    /\ draws' = <<>>
    /\ rng' = <<>>
    /\ err' = ""
    /\ outdir' = FALSE
    /\ output' = NoOutput
    /\ UNCHANGED <<args, files>>

Next ==
    \/ seed_rng
    \/ load_cards
    \/ composite_background
    \/ next_column
    \/ place_card
    \/ end_column
    \/ return_canvas
    \/ mkdir
    \/ save

Spec == Init /\ [][Next]_vars

\* The layout loop of composite_background: a sequential program, it runs
\* on until it returns or raises.
layout == next_column \/ place_card \/ end_column \/ return_canvas

\* The runs without --seed (the default), with adjacent columns.
InitFair == Init /\ args.seed = <<>> /\ args.column_gap = 0

FairSpec == InitFair /\ [][Next]_vars /\ WF_vars(layout)

\* Two runs with a fixed seed.
NextDet == Next \/ rerun

\* The runs that fix the seed, with adjacent columns.
InitDet == Init /\ args.seed # <<>> /\ args.column_gap = 0

SpecDet == InitDet /\ [][NextDet]_vars

\* composite_background alone, on one card of a given width: canvas widths
\* 0..MaxGeomWidth, card widths 1..MaxGeomCard, column gaps
\* -MaxGeomGap..MaxGeomGap, and the 600 x 1200 canvas with cards of 150 x 540
\* and a column gap of 10.
MaxGeomWidth == 8
MaxGeomCard == 4
MaxGeomGap == 3

InitGeom ==
    /\ pc = "composite"
    /\ \E g \in ({ <<w, 1, cw, cg>> : w \in 0..MaxGeomWidth, cw \in 1..MaxGeomCard,
                                     cg \in (-MaxGeomGap)..MaxGeomGap }
                 \cup { <<600, 1200, 150, 10>> }) :
          /\ args = Args(g[1], g[2], IF g[1] = 600 THEN 540 ELSE 1, g[4], 0, <<>>)
          /\ files = <<Size(g[3], IF g[1] = 600 THEN 540 ELSE 1)>>
    /\ cards = files
    /\ canvas = BlankCanvas
    /\ columns = <<>>
    /\ col = 0
    /\ y = 0
    /\ draws = <<>>
    /\ rng = <<>>
    /\ err = ""
    /\ outdir = FALSE
    /\ output = NoOutput
    /\ run = 1
    /\ prev = NoPrev

SpecGeom == InitGeom /\ [][composite_background]_vars

\* load_cards alone, on a directory of one file of 1..MaxSide by 1..MaxSide
\* with target heights 1..MaxSide, and on three files of 300 x 600 with
\* target height 540.
MaxSide == 16

InitLoad ==
    /\ pc = "load"
    /\ \E l \in ({ <<(<<Size(w, h)>>), t>> : w \in 1..MaxSide, h \in 1..MaxSide,
                                           t \in 1..MaxSide }
                 \cup { <<(<<Size(300, 600), Size(300, 600), Size(300, 600)>>), 540>> }) :
          /\ files = l[1]
          /\ args = Args(600, 1200, l[2], 10, 0, <<>>)
    /\ Fresh
    /\ run = 1
    /\ prev = NoPrev

SpecLoad == InitLoad /\ [][load_cards]_vars

\* ------------------------------------------------------------------ claims

card_w == cards[1].w
card_h == cards[1].h

\* The columns have been computed.
ColumnsComputed == pc = "column" /\ col = 1

NonDecreasing(xs) == \A i \in 1..(Len(xs) - 1) : xs[i] <= xs[i + 1]
Increasing(xs) == \A i \in 1..(Len(xs) - 1) : xs[i] < xs[i + 1]

\* C1 as stated: for every canvas width, column gap and card width that
\* composite_background accepts, the column x-offsets are non-decreasing
\* and no column's x-offset plus the card width exceeds the canvas width.
C1_Original ==
    ColumnsComputed =>
        /\ NonDecreasing(columns)
        /\ \A i \in 1..Len(columns) : columns[i] + card_w <= args.width

\* C1 amended: the column x-offsets are non-decreasing and not negative;
\* when the card is no wider than the canvas no column's x-offset plus the
\* card width exceeds the canvas width; when the card is wider than the
\* canvas every x-offset is 0 (and the card overhangs the right edge).
C1_ColumnsClamped ==
    ColumnsComputed =>
        /\ NonDecreasing(columns)
        /\ \A i \in 1..Len(columns) :
              /\ columns[i] >= 0
              /\ card_w <= args.width => columns[i] + card_w <= args.width
              /\ card_w > args.width => columns[i] = 0

\* C1's case: several columns, the last of them held back by the clamp.
C1_Witness ==
    /\ ColumnsComputed
    /\ Len(columns) >= 3
    /\ args.column_gap > 0
    /\ (Len(columns) - 1) * (card_w + args.column_gap) > columns[Len(columns)]
    /\ columns[Len(columns)] + card_w = args.width

\* n is max(1, ceiling(num / den)), said without the division
IsColumnCount(n, num, den) ==
    LET AtMost(k) == IF den > 0 THEN num <= k * den ELSE num >= k * den
    IN  /\ n >= 1
        /\ AtMost(n)
        /\ n > 1 => ~AtMost(n - 1)

\* x is v clamped into [0, hi]
IsClamped(x, v, hi) ==
    /\ v < 0 => x = 0
    /\ (0 <= v /\ v <= hi) => x = v
    /\ v > hi => x = hi

\* C6: the column pitch is card width + column gap, the column count is
\* max(1, ceiling((canvas width + column gap) / pitch)), and column i is at
\* i * pitch clamped into [0, max(canvas width - card width, 0)]; a canvas
\* of width 600, cards of width 150 and a column gap of 10 give the pitch
\* 160, 4 columns and the offsets 0, 160, 320, 450.
C6_ColumnGeometry ==
    ColumnsComputed =>
        LET pitch == card_w + args.column_gap
            hi == IF args.width - card_w >= 0 THEN args.width - card_w ELSE 0
        IN  /\ IsColumnCount(Len(columns), args.width + args.column_gap, pitch)
            /\ \A i \in 1..Len(columns) : IsClamped(columns[i], (i - 1) * pitch, hi)
            /\ (args.width = 600 /\ card_w = 150 /\ args.column_gap = 10) =>
                  /\ pitch = 160
                  /\ columns = <<0, 160, 320, 450>>

C6_Witness ==
    /\ ColumnsComputed
    /\ args.width = 600
    /\ card_w = 150
    /\ args.column_gap = 10
    /\ Len(columns) = 4

\* C10: when the column gap is >= 0 and 1 <= card width <= canvas width,
\* the column x-offsets are strictly increasing, every column but the last
\* is at exactly i * pitch, strictly left of canvas width - card width, and
\* the last column is at exactly canvas width - card width.
C10_LastColumnFlush ==
    (ColumnsComputed /\ args.column_gap >= 0 /\ 1 <= card_w /\ card_w <= args.width) =>
        LET pitch == card_w + args.column_gap
            n == Len(columns)
        IN  /\ Increasing(columns)
            /\ \A i \in 1..(n - 1) :
                  /\ columns[i] = (i - 1) * pitch
                  /\ columns[i] < args.width - card_w
            /\ columns[n] = args.width - card_w

\* C10's case: three or more columns, the last one moved left by the clamp.
C10_Witness ==
    /\ ColumnsComputed
    /\ args.column_gap >= 0
    /\ card_w <= args.width
    /\ Len(columns) >= 3
    /\ columns[Len(columns)] < (Len(columns) - 1) * (card_w + args.column_gap)
    /\ columns[Len(columns) - 1] = (Len(columns) - 2) * (card_w + args.column_gap)

\* load_cards has returned the cards.
Loaded == pc = "composite"

\* C5 as stated: every card is resized to exactly the target height, and a
\* source card of 300 x 600 loaded with target height 540 is resized to
\* width 150 and height 540.
C5_Original ==
    Loaded =>
        \A i \in 1..Len(cards) :
            /\ cards[i].h = args.card_height
            /\ (files[i] = Size(300, 600) /\ args.card_height = 540) =>
                  cards[i] = Size(150, 540)

\* C5 amended: every card is resized to exactly the target height; its
\* width is int(width * (target height / source height)) in floats, which
\* is the exact scaled width truncated to an integer, or one less than the
\* exact scaled width when that is an integer; a source card of 300 x 600
\* loaded with target height 540 is resized to width 270 and height 540.
C5_Resized ==
    Loaded =>
        /\ Len(cards) = Len(files)
        /\ \A i \in 1..Len(cards) :
              LET exact == (files[i].w * args.card_height) \div files[i].h
                  whole == (files[i].w * args.card_height) % files[i].h = 0
              IN  /\ cards[i].h = args.card_height
                  /\ cards[i].w >= 1
                  /\ cards[i].w \in {exact, exact - 1}
                  /\ ~whole => cards[i].w = exact
                  /\ (files[i] = Size(300, 600) /\ args.card_height = 540) =>
                        cards[i] = Size(270, 540)

\* C5's case: the three cards of 300 x 600 loaded with target height 540.
C5_Witness ==
    /\ Loaded
    /\ Len(files) = 3
    /\ files[1] = Size(300, 600)
    /\ args.card_height = 540
    /\ cards[3].h = 540

\* A square card whose float product falls short of the exact width.
C5_ShortWidth ==
    /\ Loaded
    /\ files[1] = Size(11, 11)
    /\ args.card_height = 15
    /\ cards[1] = Size(14, 15)

\* C2: when the directory holds no matching file, load_cards fails with
\* FileNotFoundError and the run never reaches composite_background, the
\* creation of the output directory or the save: no canvas is created and
\* nothing is written.
C2_NoCardsNotFound ==
    files = <<>> =>
        /\ pc \in {"seed", "load", "error"}
        /\ pc = "error" => err = "FileNotFoundError"
        /\ ~canvas.made
        /\ draws = <<>>
        /\ ~outdir
        /\ ~output.written

C2_Witness ==
    /\ files = <<>>
    /\ pc = "error"
    /\ err = "FileNotFoundError"

Ops == canvas.ops

\* two composites that follow each other in one column
Successive(i) == Ops[i].col = Ops[i + 1].col

\* C4: when the row gap is 0 every jitter is 0 and, in every column, the
\* y-offsets of two successive placements differ by exactly the card
\* height, whatever the random draws.
C4_ZeroRowGap ==
    args.row_gap = 0 =>
        /\ \A i \in 1..Len(draws) :
              draws[i].kind = "jitter" => draws[i].ok /\ draws[i].val = 0
        /\ \A i \in 1..(Len(Ops) - 1) :
              Successive(i) => Ops[i + 1].y - Ops[i].y = card_h

\* the number of calls of a kind made for column c
Calls(kind, c) ==
    Cardinality({i \in 1..Len(draws) : draws[i].kind = kind /\ draws[i].col = c})

Composites(c) == Cardinality({i \in 1..Len(Ops) : Ops[i].col = c})

\* C4's case: a finished run with row gap 0 in which a column skipped its
\* first card and then placed two.
C4_Witness ==
    /\ args.row_gap = 0
    /\ pc = "done"
    /\ \E i \in 1..(Len(Ops) - 1) :
          /\ Successive(i)
          /\ Calls("choice", Ops[i].col) = 3

\* C7 as stated: a call of composite_background with a negative row gap
\* runs to completion without an error.
C7_Original ==
    (args.row_gap < 0 /\ canvas.made) => err # RandintError

\* C7 amended: a negative row gap is not validated, but no layout with
\* overlapping rows comes of it: the jitter draw of the first slot that is
\* processed, random.randint(-row_gap, row_gap), has an empty range and
\* raises ValueError, after at most one card was composited; the run gets
\* past composite_background only when no slot is processed at all (canvas
\* height 0 and every column starting at y = 0).
C7_NegativeRowGapRaises ==
    args.row_gap < 0 =>
        /\ \A i \in 1..Len(draws) :
              /\ draws[i].kind = "jitter" => ~draws[i].ok /\ i = Len(draws)
              /\ draws[i].kind = "choice" => pc = "error" /\ err = RandintError
              /\ (draws[i].kind = "y" /\ pc \in {"mkdir", "save", "done"}) =>
                    draws[i].val = 0
        /\ Len(Ops) <= 1
        /\ pc \in {"mkdir", "save", "done"} => args.height = 0 /\ Ops = <<>>

\* C7's case: the run raised in its first slot, after compositing one card.
C7_Witness ==
    /\ args.row_gap < 0
    /\ pc = "error"
    /\ err = RandintError
    /\ Len(Ops) = 1

\* A turn of the while loop is about to run.
SlotStep == pc = "slot" /\ y < args.height

\* the composite a turn makes of the card it chose
Placed == [col |-> col, card |-> draws'[Len(draws) + 1].val,
           x |-> columns[col], y |-> y]

\* the turn composites its card exactly when y >= 0
PlacedIff ==
    /\ draws'[Len(draws) + 1].kind = "choice"
    /\ y >= 0 => canvas'.ops = Append(Ops, Placed)
    /\ y < 0 => canvas'.ops = Ops

\* the turn draws its jitter and advances y by card height + row gap + jitter
Advances ==
    /\ Len(draws') = Len(draws) + 2
    /\ draws'[Len(draws) + 2].kind = "jitter"
    /\ draws'[Len(draws) + 2].ok
    /\ y' = y + card_h + args.row_gap + draws'[Len(draws) + 2].val
    /\ pc' = "slot"

\* the turn is not the first of its column
LaterSlot == draws[Len(draws)].kind = "jitter"

\* C8 as stated: a card is composited iff its y is >= 0; a skipped card
\* still consumes its card-choice and jitter draws and advances y; with row
\* gap >= 0 every slot after the first of a column has y >= 0 and is
\* composited at a y in [0, canvas height).
C8_Original ==
    [][SlotStep =>
          /\ PlacedIff
          /\ y < 0 => Advances
          /\ (args.row_gap >= 0 /\ LaterSlot) =>
                (0 <= y /\ y < args.height /\ canvas'.ops = Append(Ops, Placed))
      ]_vars

\* C8 amended: a card is composited iff its y is >= 0, and every slot
\* consumes its card-choice draw; with row gap >= 0 every slot, skipped or
\* not, also consumes its jitter draw and advances y, and every slot after
\* the first of a column has y >= 0 and is composited at a y in
\* [0, canvas height); with row gap < 0 the jitter draw raises ValueError
\* and y does not advance.
C8_SkipOnlyFirst ==
    [][SlotStep =>
          /\ PlacedIff
          /\ args.row_gap >= 0 => Advances
          /\ args.row_gap < 0 => (y' = y /\ pc' = "error" /\ err' = RandintError)
          /\ (args.row_gap >= 0 /\ LaterSlot) =>
                (0 <= y /\ y < args.height /\ canvas'.ops = Append(Ops, Placed))
      ]_vars

\* C8's case: a finished run with a positive row gap in which a column
\* skipped its first card and then placed two.
C8_Witness ==
    /\ pc = "done"
    /\ args.row_gap > 0
    /\ \E c \in 1..Len(columns) :
          /\ Calls("choice", c) = 3
          /\ Composites(c) = 2

\* C9: with row gap >= 0 and card height >= 1 the layout loop terminates
\* whatever the draws: each slot moves y down by at least the card height
\* and at most card height + 2 * row gap, every column finishes and all
\* columns are processed.
C9_LayoutTerminates ==
    /\ (ColumnsComputed /\ args.row_gap >= 0 /\ card_h >= 1)
          ~> (pc = "mkdir" /\ col = Len(columns) + 1)
    /\ [][(SlotStep /\ args.row_gap >= 0) =>
             /\ y' >= y + card_h
             /\ y' <= y + card_h + 2 * args.row_gap
             /\ y' > y
         ]_vars

\* C9's case: both columns of a canvas were laid out with a positive row
\* gap and the loop was left.
C9_Witness ==
    /\ pc = "mkdir"
    /\ args.row_gap > 0
    /\ Len(columns) = 2
    /\ Composites(1) >= 2
    /\ Composites(2) >= 2

\* The calls of the random module come in the fixed order: for the columns
\* in increasing order, one draw of the initial y, then per slot one draw
\* of the card followed by one draw of the jitter.
DrawOrder ==
    \A i \in 1..Len(draws) :
        LET d == draws[i]
        IN  /\ d.kind = "y" =>
                  IF i = 1 THEN d.col = 1
                  ELSE /\ draws[i - 1].kind \in {"y", "jitter"}
                       /\ d.col = draws[i - 1].col + 1
            /\ d.kind = "choice" =>
                  /\ i > 1
                  /\ draws[i - 1].kind \in {"y", "jitter"}
                  /\ d.col = draws[i - 1].col
                  /\ i < Len(draws)
            /\ d.kind = "jitter" =>
                  /\ i > 1
                  /\ draws[i - 1].kind = "choice"
                  /\ d.col = draws[i - 1].col

\* C3: for a fixed seed and identical cards and flags, two independent runs
\* make the identical sequence of composites (same card, same x, same y,
\* same order); the random draws are consumed in a fixed order: per column
\* in increasing index, one initial-y draw, then per slot one card-choice
\* draw followed by one jitter draw, whether or not the slot is placed.
C3_Deterministic ==
    /\ DrawOrder
    /\ \A c \in 1..Len(columns) :
          /\ Calls("y", c) <= 1
          /\ Calls("jitter", c) = Calls("choice", c)
          /\ Composites(c) <= Calls("choice", c)
    /\ pc \in {"mkdir", "save", "done"} =>
          \A c \in 1..Len(columns) : Calls("y", c) = 1
    /\ (run = 2 /\ pc \in {"done", "error"}) =>
          /\ Ops = prev.canvas.ops
          /\ draws = prev.draws
          /\ pc = prev.pc
          /\ err = prev.err
          /\ pc = "done" => output.ops = prev.canvas.ops

\* C3's case: the second run with the seed has finished a layout of two
\* columns, with two cards to choose from, a skipped slot and several
\* composites.
C3_Witness ==
    /\ run = 2
    /\ pc = "done"
    /\ rng # <<>>
    /\ Len(columns) = 2
    /\ Len(cards) = 2
    /\ \E c \in 1..2 : Composites(c) < Calls("choice", c)
    /\ \E i, j \in 1..Len(Ops) : Ops[i].card # Ops[j].card
    /\ output.ops = prev.canvas.ops

====
